---- MODULE Spec2Model ----
(***************************************************************************)
(* MassHostsEncoder (src/MassHostsEncoder.h): a label store (buf_), a     *)
(* label trie (root_) and the UTF-8 offset codec, with the two public     *)
(* operations compress_hostname and decompress_hostname.                  *)
(*                                                                         *)
(* Strings and byte strings are sequences of byte values 0..255.          *)
(* The std::vector buf_ is held as its written prefix (buf_.data, the     *)
(* bytes below bufCosumed_) and its size (buf_.size): vector::resize      *)
(* value-initialises, so every byte at or above the prefix is 0.          *)
(* The trie is held as an arena: root_[1] is the root node, every other   *)
(* node is appended when write_node creates it, and childNodes holds the  *)
(* arena indices of the children in vector order.                         *)
(***************************************************************************)
EXTENDS Integers, Sequences, FiniteSets, TLC

VARIABLES root_, buf_, bufCosumed_, ndebug, aborted, last, issued

vars == <<root_, buf_, bufCosumed_, ndebug, aborted, last, issued>>

MAX_HOST_NAME_NODE_LEN == 64

\* Growth step of write_string: sizes are multiples of 2^11.
STEP_SHIFT == 11

\* Largest code point codecvt_utf8 converts (its default Maxcode).
MAX_CODE == 1114111

\* Number of distinct hostnames one behaviour compresses.
MaxHosts == 3

\* Number of 64-byte labels of the deep hostname (enough to outgrow one block).
DeepLabels == 32

DOT == 46

---------------------------------------------------------------------------
\* Text helpers: the byte values of the characters used in the inputs.

LowerCase == <<"a","b","c","d","e","f","g","h","i","j","k","l","m",
               "n","o","p","q","r","s","t","u","v","w","x","y","z">>
UpperCase == <<"A","B","C","D","E","F","G","H","I","J","K","L","M",
               "N","O","P","Q","R","S","T","U","V","W","X","Y","Z">>

Ord(c) ==
    IF c = "." THEN DOT
    ELSE IF \E i \in 1..26 : LowerCase[i] = c
         THEN 96 + (CHOOSE i \in 1..26 : LowerCase[i] = c)
         ELSE 64 + (CHOOSE i \in 1..26 : UpperCase[i] = c)

Str(t) == [i \in 1..Len(t) |-> Ord(t[i])]

Min(S) == CHOOSE x \in S : \A y \in S : x <= y

\* s[from .. from+len-1] with 0-based from, as {s.data() + from, len}.
Sub(s, from, len) == SubSeq(s, from + 1, from + len)

Pow2(n) == 2 ^ n

---------------------------------------------------------------------------
\* The instance state handed from step to step inside one call.

\* writes lists what write_string did in this call, one record per entry
\* written: its offset, its label length, buf_.size() before and after.
\* ptrs lists the write_node calls of this call, offList the offsets
\* compress_hostname has collected.
State == [root |-> root_, buf |-> buf_, consumed |-> bufCosumed_,
          fault |-> "none", writes |-> <<>>, ptrs |-> <<>>, offList |-> <<>>]

\* buf_[i] for an index inside the vector.
BufAt(b, i) == IF i < Len(b.data) THEN b.data[i + 1] ELSE 0

\* The chars of the entry [length, chars] at offset off: &buf_[off + 1], buf_[off].
EntryChars(b, off) ==
    LET n == BufAt(b, off)
    IN  IF off + n < Len(b.data)
        THEN SubSeq(b.data, off + 2, off + 1 + n)
        ELSE [i \in 1..n |-> BufAt(b, off + i)]

---------------------------------------------------------------------------
\* _strnicmp and compare_bare_string.

tolower(c) == IF c >= 65 /\ c <= 90 THEN c + 32 ELSE c

\* Mutant of strnicmp: strncmp, which does not fold the case.
strncmp_cs(a, b, n) ==
    LET stop == {i \in 1..n : a[i] # b[i] \/ a[i] = 0}
    IN  IF stop = {} THEN 0
        ELSE LET i == Min(stop) IN a[i] - b[i]

\* Compares at most n chars, lower-cased, and stops at a NUL.
strnicmp(a, b, n) ==
    LET stop == {i \in 1..n : tolower(a[i]) # tolower(b[i]) \/ a[i] = 0}
    IN  IF stop = {} THEN 0
        ELSE LET i == Min(stop) IN tolower(a[i]) - tolower(b[i])

\* Mutant of compare_bare_string: equal shared prefixes compare equal, whatever
\* the two sizes.
compare_bare_string_prefix(a, asize, b, bsize) ==
    strnicmp(a, b, IF asize < bsize THEN asize ELSE bsize)

compare_bare_string(a, asize, b, bsize) ==
    LET ret == strnicmp(a, b, IF asize < bsize THEN asize ELSE bsize)
    IN  IF ret # 0 THEN ret
        ELSE IF asize = bsize THEN 0
        ELSE IF asize > bsize THEN 1 ELSE -1

---------------------------------------------------------------------------
\* write_string: append [length, chars] to the store, growing it by one step
\* when the entry reaches the end of the vector.

Zeros(n) == [i \in 1..n |-> 0]

\* Mutant of write_string: growing replaces the vector by a fresh one of the
\* new size, so what was written before is lost.
write_string_fresh(st, s) ==
    IF ~ndebug /\ Len(s) > MAX_HOST_NAME_NODE_LEN
    THEN [st |-> [st EXCEPT !.fault = "abort"], off |-> 0]
    ELSE
    LET grow    == Len(s) + 1 + st.consumed >= st.buf.size
        newSize == IF grow
                   THEN ((st.buf.size \div Pow2(STEP_SHIFT)) + 1) * Pow2(STEP_SHIFT)
                   ELSE st.buf.size
        off     == st.consumed
        old     == IF grow THEN Zeros(off)
                   ELSE st.buf.data \o Zeros(off - Len(st.buf.data))
    IN  [st |-> [st EXCEPT
                   !.buf = [data |-> old \o <<Len(s) % 256>> \o s,
                            size |-> newSize],
                   !.consumed = off + Len(s) + 1,
                   !.writes = Append(@, [off |-> off, len |-> Len(s),
                                         before |-> st.buf.size,
                                         after |-> newSize])],
         off |-> off]

\* Mutant of write_string: the growth test leaves out the size of the entry.
write_string_late(st, s) ==
    IF ~ndebug /\ Len(s) > MAX_HOST_NAME_NODE_LEN
    THEN [st |-> [st EXCEPT !.fault = "abort"], off |-> 0]
    ELSE
    LET grow    == st.consumed >= st.buf.size
        newSize == IF grow
                   THEN ((st.buf.size \div Pow2(STEP_SHIFT)) + 1) * Pow2(STEP_SHIFT)
                   ELSE st.buf.size
        off     == st.consumed
    IN  IF off + 1 + Len(s) > newSize
        THEN [st |-> [st EXCEPT !.fault = "overrun"], off |-> off]
        ELSE [st |-> [st EXCEPT
                        !.buf = [data |-> st.buf.data
                                          \o Zeros(off - Len(st.buf.data))
                                          \o <<Len(s) % 256>> \o s,
                                 size |-> newSize],
                        !.consumed = off + Len(s) + 1,
                        !.writes = Append(@, [off |-> off, len |-> Len(s),
                                              before |-> st.buf.size,
                                              after |-> newSize])],
              off |-> off]

write_string(st, s) ==
    IF ~ndebug /\ Len(s) > MAX_HOST_NAME_NODE_LEN
    THEN [st |-> [st EXCEPT !.fault = "abort"], off |-> 0]
    ELSE
    LET grow    == Len(s) + 1 + st.consumed >= st.buf.size
        newSize == IF grow
                   THEN ((st.buf.size \div Pow2(STEP_SHIFT)) + 1) * Pow2(STEP_SHIFT)
                   ELSE st.buf.size
        off     == st.consumed
    IN  IF off + 1 + Len(s) > newSize
        THEN [st |-> [st EXCEPT !.fault = "overrun"], off |-> off]
        ELSE [st |-> [st EXCEPT
                        !.buf = [data |-> st.buf.data
                                          \o Zeros(off - Len(st.buf.data))
                                          \o <<Len(s) % 256>> \o s,
                                 size |-> newSize],
                        !.consumed = off + Len(s) + 1,
                        !.writes = Append(@, [off |-> off, len |-> Len(s),
                                              before |-> st.buf.size,
                                              after |-> newSize])],
              off |-> off]

---------------------------------------------------------------------------
\* find_node: binary search among the children (0-based result, -1 if absent).

\* Mutant of find_loop: the two halves of the search are swapped.
RECURSIVE find_loop_swapped(_, _, _, _, _)
find_loop_swapped(st, nodes, s, low, high) ==
    IF low > high THEN -1
    ELSE LET mid == (low + high) \div 2
             off == st.root[nodes[mid + 1]].offset
             ret == compare_bare_string(EntryChars(st.buf, off), BufAt(st.buf, off),
                                        s, Len(s))
         IN  IF ret = 0 THEN mid
             ELSE IF ret > 0 THEN find_loop_swapped(st, nodes, s, mid + 1, high)
             ELSE find_loop_swapped(st, nodes, s, low, mid - 1)

RECURSIVE find_loop(_, _, _, _, _)
find_loop(st, nodes, s, low, high) ==
    IF low > high THEN -1
    ELSE LET mid == (low + high) \div 2
             off == st.root[nodes[mid + 1]].offset
             ret == compare_bare_string(EntryChars(st.buf, off), BufAt(st.buf, off),
                                        s, Len(s))
         IN  IF ret = 0 THEN mid
             ELSE IF ret < 0 THEN find_loop(st, nodes, s, mid + 1, high)
             ELSE find_loop(st, nodes, s, low, mid - 1)

\* Mutant of find_node: high starts one short, so the last child is never seen.
find_node_short(st, nodes, s) ==
    IF nodes = <<>> THEN -1
    ELSE find_loop(st, nodes, s, 0, Len(nodes) - 2)

find_node(st, nodes, s) ==
    IF nodes = <<>> THEN -1
    ELSE find_loop(st, nodes, s, 0, Len(nodes) - 1)

---------------------------------------------------------------------------
\* write_node: the child of refNode labelled s, created if absent.

\* Mutant of insert_pos: no search, the new node goes to the end.
insert_pos_end(st, nodes, s, insertPos) == insertPos

\* Mutant of insert_pos: no search, the new node goes to the front.
insert_pos_front(st, nodes, s, insertPos) == -1

RECURSIVE insert_pos(_, _, _, _)
insert_pos(st, nodes, s, insertPos) ==
    IF insertPos >= 0
       /\ compare_bare_string(EntryChars(st.buf, st.root[nodes[insertPos + 1]].offset),
                              BufAt(st.buf, st.root[nodes[insertPos + 1]].offset),
                              s, Len(s)) > 0
    THEN insert_pos(st, nodes, s, insertPos - 1)
    ELSE insertPos

\* Mutant of Emplace: the element at pos is assigned instead of moved up.
Emplace_overwrite(v, pos, x) ==
    IF pos < Len(v) THEN [v EXCEPT ![pos + 1] = x] ELSE Append(v, x)

\* vector::emplace(begin() + pos, x)
Emplace(v, pos, x) == SubSeq(v, 1, pos) \o <<x>> \o SubSeq(v, pos + 1, Len(v))

\* Mutant of write_node: the entry is written before the search, hit or miss.
write_node_eager(st, refNode, s) ==
    LET children == st.root[refNode].childNodes
        foundIdx == find_node(st, children, s)
        w        == write_string(st, s)
    IN  IF w.st.fault # "none"
        THEN [st |-> w.st, node |-> 0, vec |-> 0, shift |-> 0]
        ELSE IF foundIdx # -1
        THEN [st |-> w.st, node |-> children[foundIdx + 1], vec |-> 0, shift |-> 0]
        ELSE
        LET insertPos == insert_pos(w.st, children, s, Len(children) - 1)
            new       == Len(st.root) + 1
            root2     == Append(w.st.root, [offset |-> w.off, childNodes |-> <<>>])
        IN  [st    |-> [w.st EXCEPT !.root =
                           [root2 EXCEPT ![refNode].childNodes =
                               Emplace(children, insertPos + 1, new)]],
             node  |-> new,
             vec   |-> refNode,
             shift |-> Len(children) - (insertPos + 1)]

\* Mutant of write_node: the new node is emplaced in root_.childNodes instead
\* of refNode->childNodes.
write_node_root(st, refNode, s) ==
    LET children == st.root[refNode].childNodes
        foundIdx == find_node(st, children, s)
    IN  IF foundIdx # -1
        THEN [st |-> st, node |-> children[foundIdx + 1], vec |-> 0, shift |-> 0]
        ELSE
        LET w == write_string(st, s)
        IN  IF w.st.fault # "none"
            THEN [st |-> w.st, node |-> 0, vec |-> 0, shift |-> 0]
            ELSE
            LET new   == Len(st.root) + 1
                root2 == Append(w.st.root, [offset |-> w.off, childNodes |-> <<>>])
            IN  [st    |-> [w.st EXCEPT !.root =
                               [root2 EXCEPT ![1].childNodes = <<new>> \o @]],
                 node  |-> new,
                 vec   |-> 1,
                 shift |-> Len(st.root[1].childNodes)]

\* node: the arena index of the returned node, 0 for nullptr. vec: the node
\* whose childNodes vector the call emplaced into, 0 when it emplaced nothing.
\* shift: how many elements of that vector the emplace moved up.
write_node(st, refNode, s) ==
    LET children == st.root[refNode].childNodes
        foundIdx == find_node(st, children, s)
    IN  IF foundIdx # -1
        THEN [st |-> st, node |-> children[foundIdx + 1], vec |-> 0, shift |-> 0]
        ELSE
        LET w == write_string(st, s)
        IN  IF w.st.fault # "none"
            THEN [st |-> w.st, node |-> 0, vec |-> 0, shift |-> 0]
            ELSE
            LET insertPos == insert_pos(w.st, children, s, Len(children) - 1)
                new       == Len(st.root) + 1
                root2     == Append(w.st.root, [offset |-> w.off, childNodes |-> <<>>])
            IN  [st    |-> [w.st EXCEPT !.root =
                               [root2 EXCEPT ![refNode].childNodes =
                                   Emplace(children, insertPos + 1, new)]],
                 node  |-> new,
                 vec   |-> refNode,
                 shift |-> Len(children) - (insertPos + 1)]

---------------------------------------------------------------------------
\* The offset codec: std::codecvt_utf8<int32_t> through std::wstring_convert,
\* which throws std::range_error when a conversion fails.

utf8_out(c) ==
    IF c < 128 THEN <<c>>
    ELSE IF c < 2048 THEN <<192 + (c \div 64), 128 + (c % 64)>>
    ELSE IF c < 65536
         THEN <<224 + (c \div 4096), 128 + ((c \div 64) % 64), 128 + (c % 64)>>
    ELSE <<240 + (c \div 262144), 128 + ((c \div 4096) % 64),
           128 + ((c \div 64) % 64), 128 + (c % 64)>>

RECURSIVE to_bytes(_)
to_bytes(offList) ==
    IF offList = <<>> THEN [err |-> FALSE, out |-> <<>>]
    ELSE IF Head(offList) < 0 \/ Head(offList) > MAX_CODE
         THEN [err |-> TRUE, out |-> <<>>]
    ELSE LET rest == to_bytes(Tail(offList))
         IN  IF rest.err THEN rest
             ELSE [err |-> FALSE, out |-> utf8_out(Head(offList)) \o rest.out]

IsCont(b) == b >= 128 /\ b < 192

\* Number of continuation bytes a lead byte announces, -1 for no lead byte.
Extra(b) ==
    IF b < 128 THEN 0
    ELSE IF b < 192 THEN -1
    ELSE IF b < 224 THEN 1
    ELSE IF b < 240 THEN 2
    ELSE IF b < 248 THEN 3
    ELSE -1

LeadBits(b) ==
    IF b < 128 THEN b
    ELSE IF b < 224 THEN b % 32
    ELSE IF b < 240 THEN b % 16
    ELSE b % 8

RECURSIVE from_bytes(_)
from_bytes(bytes) ==
    IF bytes = <<>> THEN [err |-> FALSE, out |-> <<>>]
    ELSE
    LET b == Head(bytes)
        n == Extra(b)
    IN  IF n = -1 \/ Len(bytes) < n + 1
           \/ \E i \in 2..(n + 1) : ~IsCont(bytes[i])
        THEN [err |-> TRUE, out |-> <<>>]
        ELSE
        LET c == IF n = 0 THEN b
                 ELSE IF n = 1 THEN LeadBits(b) * 64 + (bytes[2] % 64)
                 ELSE IF n = 2
                      THEN LeadBits(b) * 4096 + (bytes[2] % 64) * 64 + (bytes[3] % 64)
                 ELSE LeadBits(b) * 262144 + (bytes[2] % 64) * 4096
                      + (bytes[3] % 64) * 64 + (bytes[4] % 64)
            rest == from_bytes(SubSeq(bytes, n + 2, Len(bytes)))
        IN  IF c > MAX_CODE \/ rest.err THEN [err |-> TRUE, out |-> <<>>]
            ELSE [err |-> FALSE, out |-> <<c>> \o rest.out]

---------------------------------------------------------------------------
\* Results of the public operations: a returned byte string, an escaping
\* std::range_error, or the abort of a failed assert.

Returned(bytes) == [kind |-> "return", bytes |-> bytes]
RangeError      == [kind |-> "range_error", bytes |-> <<>>]
Aborted         == [kind |-> "abort", bytes |-> <<>>]
Undefined       == [kind |-> "undefined", bytes |-> <<>>]

\* "an empty result": the operation returned {}.
IsEmpty(r) == r.kind = "return" /\ r.bytes = <<>>

---------------------------------------------------------------------------
\* compress_hostname.

\* for (idx = from; idx >= nameOffset; idx--) up to the first name[idx] == '.':
\* the index of that dot, -1 when the loop runs out.
RECURSIVE next_dot(_, _)
next_dot(name, idx) ==
    IF idx < 0 THEN -1
    ELSE IF name[idx + 1] = DOT THEN idx
    ELSE next_dot(name, idx - 1)

\* The vector that holds node n as an element: the childNodes of its parent,
\* named by the parent's arena index; 0 for root_, a member of the encoder
\* and no element of a vector.
HeldIn(root, n) ==
    IF \E p \in 1..Len(root) : \E i \in 1..Len(root[p].childNodes) :
           root[p].childNodes[i] = n
    THEN CHOOSE p \in 1..Len(root) : \E i \in 1..Len(root[p].childNodes) :
             root[p].childNodes[i] = n
    ELSE 0

\* The labels the loop cuts name into, in the order it meets them, from the
\* rightmost to the leftmost: each round scans down from lastPos for the
\* next dot at idx and takes name(idx, lastPos); with no dot left the last
\* part name[0, lastPos) remains.
RECURSIVE RLabels(_, _)
RLabels(h, lastPos) ==
    LET idx == next_dot(h, lastPos - 1)
    IN  IF idx = -1 THEN <<Sub(h, 0, lastPos)>>
        ELSE <<Sub(h, idx + 1, lastPos - idx - 1)>> \o RLabels(h, idx)

\* The state after the write_node call with outcome w. The call is noted in
\* ptrs: the node refNode pointed to while the call ran, which is
\* dereferenced again when it returns, the vector refIn that holds that
\* node, and the vector the call emplaced into. Unless the call returned
\* nullptr the offset of the returned node is appended to offList.
noted(w, refNode, refIn) ==
    [w.st EXCEPT
       !.ptrs = Append(@, [ref |-> refNode, refIn |-> refIn,
                           vec |-> w.vec, shift |-> w.shift]),
       !.offList = IF w.node = 0 THEN @
                   ELSE Append(@, w.st.root[w.node].offset)]

\* One round of the loop, for the label s: refNode = write_node(refNode, s)
\* and, unless that is nullptr, offList.emplace_back(refNode->offset).
\* acc is the state and refNode as the rounds before left them.
compress_round(acc, s) ==
    LET w == write_node(acc.st, acc.refNode, s)
    IN  [st      |-> noted(w, acc.refNode, HeldIn(acc.st.root, acc.refNode)),
         refNode |-> w.node]

\* The rounds lo..hi of the loop, over the labels from the rightmost to the
\* leftmost; a round that gets nullptr (refNode 0) ends the call, so the
\* rounds after it do not run. The rounds are taken by halves, the first
\* half before the second.
RECURSIVE compress_loop(_, _, _, _)
compress_loop(acc, labels, lo, hi) ==
    IF lo = hi THEN compress_round(acc, labels[lo])
    ELSE LET first == compress_loop(acc, labels, lo, (lo + hi) \div 2)
         IN  IF first.refNode = 0 THEN first
             ELSE compress_loop(first, labels, ((lo + hi) \div 2) + 1, hi)

\* st: the state the call leaves, offList: the offsets collected, result: what
\* the caller gets.
compress_hostname(st, name) ==
    LET labels == RLabels(name, Len(name))
        c      == compress_loop([st |-> st, refNode |-> 1], labels, 1, Len(labels))
    IN  IF c.refNode = 0
        THEN [st |-> c.st, offList |-> c.st.offList,
              result |-> IF c.st.fault = "abort" THEN Aborted
                         ELSE IF c.st.fault = "overrun" THEN Undefined
                         ELSE Returned(<<>>)]
        ELSE LET enc == to_bytes(c.st.offList)
             IN  [st |-> c.st, offList |-> c.st.offList,
                  result |-> IF enc.err THEN RangeError ELSE Returned(enc.out)]

---------------------------------------------------------------------------
\* decompress_hostname.

\* What the rounds lo..hi of the length loop add to totalLen: for each
\* offset the length of its entry plus one for the dot. The rounds are summed
\* by halves.
RECURSIVE total_len(_, _, _, _)
total_len(b, offList, lo, hi) ==
    IF lo > hi THEN 0
    ELSE IF lo = hi THEN BufAt(b, offList[lo]) + 1
    ELSE total_len(b, offList, lo, (lo + hi) \div 2)
         + total_len(b, offList, ((lo + hi) \div 2) + 1, hi)

\* Mutant of extract: the labels are laid out front to back.
RECURSIVE extract_forward(_, _, _, _)
extract_forward(b, offList, lo, hi) ==
    IF lo = hi
    THEN EntryChars(b, offList[lo])
         \o (IF lo # Len(offList) THEN <<DOT>> ELSE <<>>)
    ELSE extract_forward(b, offList, lo, (lo + hi) \div 2)
         \o extract_forward(b, offList, ((lo + hi) \div 2) + 1, hi)

\* What the rounds lo..hi of the extraction loop put into result: each round
\* copies its label in front of what the rounds before it placed, then a dot
\* in front of the label unless it is the last offset. The rounds are joined
\* by halves.
RECURSIVE extract(_, _, _, _)
extract(b, offList, lo, hi) ==
    IF lo = hi
    THEN (IF lo # Len(offList) THEN <<DOT>> ELSE <<>>)
         \o EntryChars(b, offList[lo])
    ELSE extract(b, offList, ((lo + hi) \div 2) + 1, hi)
         \o extract(b, offList, lo, (lo + hi) \div 2)

decompress_hostname(st, name) ==
    LET b == st.buf
    IN  IF name = <<>> \/ b.size = 0 THEN Returned(<<>>)
        ELSE
        LET dec == from_bytes(name)
        IN  IF dec.err THEN RangeError
            ELSE IF dec.out = <<>> THEN Returned(<<>>)
            ELSE IF \E i \in 1..Len(dec.out) :
                       \/ dec.out[i] >= b.size
                       \/ BufAt(b, dec.out[i]) + dec.out[i] >= b.size
                 THEN Returned(<<>>)
            ELSE IF total_len(b, dec.out, 1, Len(dec.out)) - 1 = 0
                 THEN Returned(<<>>)
            ELSE Returned(extract(b, dec.out, 1, Len(dec.out)))

---------------------------------------------------------------------------
\* Inputs.

L64 == [i \in 1..MAX_HOST_NAME_NODE_LEN |-> 97]
L65 == [i \in 1..(MAX_HOST_NAME_NODE_LEN + 1) |-> 97]

\* DeepLabels labels of 64 bytes each, all the char c, joined by dots.
Deep(c) == [i \in 1..(DeepLabels * (MAX_HOST_NAME_NODE_LEN + 1) - 1) |->
              IF i % (MAX_HOST_NAME_NODE_LEN + 1) = 0 THEN DOT ELSE c]

\* A hostname whose entries fill the first block to its last byte: as many
\* 64-byte labels as fit behind the two skipped bytes, and left of them one
\* label whose entry is exactly what remains of the block.
FullLabels == (Pow2(STEP_SHIFT) - 2) \div (MAX_HOST_NAME_NODE_LEN + 1)
RestLen == ((Pow2(STEP_SHIFT) - 2) % (MAX_HOST_NAME_NODE_LEN + 1)) - 1
Fit(c) == [i \in 1..(RestLen + FullLabels * (MAX_HOST_NAME_NODE_LEN + 1)) |->
             IF i > RestLen /\ (i - RestLen) % (MAX_HOST_NAME_NODE_LEN + 1) = 1
             THEN DOT ELSE c]

Hosts ==
    { <<>>,
      Str(<<".", "a">>),
      Str(<<"a", ".", ".">>),
      Str(<<"a", ".", "e", "x", "a", "m", "p", "l", "e", ".", "c", "o", "m">>),
      Str(<<"b", ".", "e", "x", "a", "m", "p", "l", "e", ".", "c", "o", "m">>),
      Str(<<"E", "X", "A", "M", "P", "L", "E", ".", "c", "o", "m">>),
      Str(<<"e", "x", "a", "m", "p", "l", "e", ".", "c", "o", "m">>),
      L64, L65 }

\* Hostnames that fill the store: each deep hostname writes DeepLabels entries
\* of 65 bytes, so one of them outgrows the first block of 2048 bytes and two
\* of them the second.
GrowthHosts ==
    { Str(<<"e", "x", "a", "m", "p", "l", "e", ".", "c", "o", "m">>),
      Deep(97), Deep(98) }

\* Hostnames of which one fills the first block to its last byte.
FitHosts ==
    { Str(<<"e", "x", "a", "m", "p", "l", "e", ".", "c", "o", "m">>),
      L64, Fit(102) }

\* The valid hostnames compressed before tokens of any origin are decompressed.
TokenHosts ==
    { Str(<<"e", "x", "a", "m", "p", "l", "e", ".", "c", "o", "m">>),
      Str(<<"a", ".", "e", "x", "a", "m", "p", "l", "e", ".", "c", "o", "m">>),
      L64 }

\* Tokens nobody issued: offsets 0 and 1, an offset inside the unwritten part
\* of the first block, an offset beyond it, an invalid lead byte and a
\* truncated two-byte sequence.
Crafted ==
    { <<0, 2>>, <<1>>, <<1, 2>>, <<2, 207, 168>>, <<225, 142, 136>>,
      <<128>>, <<2, 194>> }

IssuedNames  == {issued[i].name : i \in 1..Len(issued)}
IssuedTokens == {issued[i].token : i \in 1..Len(issued)}

---------------------------------------------------------------------------
\* The state machine.

\* Mutant of Init: bufCosumed_ starts at 0, without the two skipped bytes.
Init_noskip ==
    /\ root_ = <<[offset |-> 0, childNodes |-> <<>>]>>
    /\ buf_ = [data |-> <<>>, size |-> 0]
    /\ bufCosumed_ = 0
    /\ ndebug \in BOOLEAN
    /\ aborted = FALSE
    /\ last = [op |-> "none", arg |-> <<>>, result |-> Returned(<<>>),
               offList |-> <<>>, writes |-> <<>>, ptrs |-> <<>>]
    /\ issued = <<>>

Init ==
    /\ root_ = <<[offset |-> 0, childNodes |-> <<>>]>>
    /\ buf_ = [data |-> <<>>, size |-> 0]
    /\ bufCosumed_ = 2
    /\ ndebug \in BOOLEAN
    /\ aborted = FALSE
    /\ last = [op |-> "none", arg |-> <<>>, result |-> Returned(<<>>),
               offList |-> <<>>, writes |-> <<>>, ptrs |-> <<>>]
    /\ issued = <<>>

\* issued records, in call order, the first compress of every hostname that
\* returned: the hostname and its labels, its token and offset list, what
\* decompress_hostname made of the token right then, and buf_.size() at that
\* moment.
Compress(name) ==
    /\ ~aborted
    /\ name \in IssuedNames \/ Len(issued) < MaxHosts
    /\ \E c \in {compress_hostname(State, name)} :
           /\ root_' = c.st.root
           /\ buf_' = c.st.buf
           /\ bufCosumed_' = c.st.consumed
           /\ aborted' = (c.result.kind \in {"abort", "undefined"})
           /\ last' = [op |-> "compress", arg |-> name, result |-> c.result,
                       offList |-> c.offList, writes |-> c.st.writes,
                       ptrs |-> c.st.ptrs]
           /\ issued' = IF name \in IssuedNames \/ c.result.kind # "return"
                        THEN issued
                        ELSE Append(issued,
                                    [name    |-> name,
                                     labels  |-> RLabels(name, Len(name)),
                                     token   |-> c.result.bytes,
                                     offList |-> c.offList,
                                     back    |-> decompress_hostname(c.st,
                                                     c.result.bytes),
                                     size    |-> c.st.buf.size])
    /\ UNCHANGED ndebug

Decompress(token) ==
    /\ ~aborted
    /\ last' = [op |-> "decompress", arg |-> token,
                result |-> decompress_hostname(State, token), offList |-> <<>>,
                writes |-> <<>>, ptrs |-> <<>>]
    /\ UNCHANGED <<root_, buf_, bufCosumed_, ndebug, aborted, issued>>

Next ==
    \/ \E name \in Hosts : Compress(name)
    \/ \E token \in IssuedTokens : Decompress(token)

Spec == Init /\ [][Next]_vars

\* The same instance fed the hostnames that force the store to grow.
NextGrowth ==
    \/ \E name \in GrowthHosts : Compress(name)
    \/ \E token \in IssuedTokens : Decompress(token)

SpecGrowth == Init /\ [][NextGrowth]_vars

\* The same instance fed a hostname whose entries end where the first block ends.
NextFit ==
    \/ \E name \in FitHosts : Compress(name)
    \/ \E token \in IssuedTokens : Decompress(token)

SpecFit == Init /\ [][NextFit]_vars

\* The same instance handed tokens it did not issue.
NextTokens ==
    \/ \E name \in TokenHosts : Compress(name)
    \/ \E token \in Crafted \cup IssuedTokens : Decompress(token)

SpecTokens == Init /\ [][NextTokens]_vars

---------------------------------------------------------------------------
\* Vocabulary of the properties.

\* h has a run of n chars without a dot, i.e. a label of at least n bytes.
HasLabelOfLen(h, n) ==
    \E i \in 1..(Len(h) - n + 1) : \A j \in i..(i + n - 1) : h[j] # DOT

\* h has a zero-length label: empty, a leading or trailing dot, two dots in a row.
HasEmptyLabel(h) ==
    \/ h = <<>>
    \/ h[1] = DOT
    \/ h[Len(h)] = DOT
    \/ \E i \in 1..(Len(h) - 1) : h[i] = DOT /\ h[i + 1] = DOT

\* A syntactically valid hostname.
Valid(h) == ~HasEmptyLabel(h) /\ ~HasLabelOfLen(h, MAX_HOST_NAME_NODE_LEN + 1)

\* x and y differ at most in the case of ASCII letters.
EqualNoCase(x, y) ==
    /\ Len(x) = Len(y)
    /\ \A i \in 1..Len(x) : tolower(x[i]) = tolower(y[i])

\* The rightmost k labels of two hostnames, given as their label lists G and
\* H, agree up to case.
AgreeOn(G, H, k) ==
    /\ k <= Len(G)
    /\ k <= Len(H)
    /\ \A m \in 1..k : EqualNoCase(G[m], H[m])

\* Every label of issued[i].name was first stored in the spelling it has in
\* that name: no hostname compressed before spells a shared label path otherwise.
FirstSpelling(i) ==
    \A k \in 1..(i - 1) : \A n \in 1..Len(issued[i].labels) :
        AgreeOn(issued[k].labels, issued[i].labels, n)
        => issued[k].labels[n] = issued[i].labels[n]

---------------------------------------------------------------------------
C2_GrowthStable ==
    \A i \in 1..Len(issued) :
        /\ decompress_hostname(State, issued[i].token) = issued[i].back
        /\ Valid(issued[i].name) =>
               (issued[i].back.kind = "return" /\ issued[i].back.bytes # <<>>)

\* A token issued in the first block was decompressed after the store had
\* grown twice more.
C2_Witness ==
    \E i \in 1..Len(issued) :
        /\ issued[i].size = Pow2(STEP_SHIFT)
        /\ buf_.size = 3 * Pow2(STEP_SHIFT)
        /\ last.op = "decompress"
        /\ last.arg = issued[i].token
        /\ last.result = issued[i].back
        /\ ~IsEmpty(issued[i].back)

\* C3: compress_hostname of a hostname compressed before returns the token
\* the first call returned.
C3_Idempotent ==
    (last.op = "compress" /\ last.result.kind = "return") =>
        \A i \in 1..Len(issued) :
            issued[i].name = last.arg => last.result.bytes = issued[i].token

\* A hostname was compressed again after other hostnames had been compressed
\* in between.
C3_Witness ==
    /\ last.op = "compress"
    /\ \E i \in 1..(Len(issued) - 1) :
           /\ issued[i].name = last.arg
           /\ last.result = Returned(issued[i].token)

\* C4 as stated: compress_hostname of a hostname with a zero-length label
\* returns an empty result.
C4_EmptyLabelRejected ==
    (last.op = "compress" /\ HasEmptyLabel(last.arg)) => IsEmpty(last.result)

\* C5 as stated: a hostname whose longest label has 64 bytes compresses to a
\* non-empty token, and one with a label of 65 bytes gets an empty result and
\* leaves the store as it was.
C5_LabelLengthBoundary ==
    last.op = "compress" =>
        /\ (/\ ~HasEmptyLabel(last.arg)
            /\ HasLabelOfLen(last.arg, MAX_HOST_NAME_NODE_LEN)
            /\ ~HasLabelOfLen(last.arg, MAX_HOST_NAME_NODE_LEN + 1))
           => (last.result.kind = "return" /\ last.result.bytes # <<>>)
        /\ HasLabelOfLen(last.arg, MAX_HOST_NAME_NODE_LEN + 1)
           => (/\ IsEmpty(last.result)
               /\ \A n \in 2..Len(root_) :
                      BufAt(buf_, root_[n].offset) <= MAX_HOST_NAME_NODE_LEN)

\* C6 as stated: decompress_hostname of a token that decodes to an offset
\* list holding an offset outside the written part of the store (0, 1, or at
\* or past bufCosumed_) returns an empty result.
C6_InvalidOffsetRejected ==
    (/\ last.op = "decompress"
     /\ ~from_bytes(last.arg).err
     /\ \E i \in 1..Len(from_bytes(last.arg).out) :
            \/ from_bytes(last.arg).out[i] < 2
            \/ from_bytes(last.arg).out[i] >= bufCosumed_)
    => IsEmpty(last.result)

\* C7 as stated: decompress_hostname of bytes that are no well-formed
\* encoding, and compress_hostname of an offset list that cannot be encoded,
\* return an empty result; no call ends in an exception or an abort.
C7_CodecFailureIsEmpty ==
    /\ (last.op = "decompress" /\ from_bytes(last.arg).err) => IsEmpty(last.result)
    /\ (last.op = "compress" /\ last.result.kind = "return"
        /\ to_bytes(last.offList).err) => IsEmpty(last.result)
    /\ last.result.kind # "range_error"

\* C8 as stated: a hostname that differs from an earlier-compressed one only
\* in letter case gets the earlier token, and that token decompresses to the
\* earlier hostname.
C8_FirstWriteWinsExact ==
    \A i \in 1..Len(issued) : \A j \in (i + 1)..Len(issued) :
        EqualNoCase(issued[i].name, issued[j].name) =>
            /\ issued[j].token = issued[i].token
            /\ decompress_hostname(State, issued[i].token)
               = Returned(issued[i].name)

\* C8 amended: a hostname that differs from an earlier-compressed one only in
\* letter case gets the earlier token, and in every later state that token
\* decompresses to what it decompressed to when the earlier hostname was
\* compressed: the earlier hostname up to case, each label in the case first
\* stored on its path, which is the earlier hostname itself when no hostname
\* before it spelled one of those labels otherwise.
C8_FirstWriteWins ==
    \A i \in 1..Len(issued) : \A j \in (i + 1)..Len(issued) :
        EqualNoCase(issued[i].name, issued[j].name) =>
            /\ issued[j].token = issued[i].token
            /\ issued[j].back = issued[i].back
            /\ decompress_hostname(State, issued[j].token) = issued[i].back
            /\ issued[i].back.kind = "return"
            /\ issued[i].name # <<>> =>
                   EqualNoCase(issued[i].back.bytes, issued[i].name)
            /\ (FirstSpelling(i) /\ issued[i].name # <<>>) =>
                   issued[i].back.bytes = issued[i].name

\* A case variant of an earlier hostname was compressed, and its token was
\* decompressed to the earlier spelling.
C8_Witness ==
    \E i \in 1..Len(issued) : \E j \in (i + 1)..Len(issued) :
        /\ EqualNoCase(issued[i].name, issued[j].name)
        /\ issued[i].name # issued[j].name
        /\ FirstSpelling(i)
        /\ last.op = "decompress"
        /\ last.arg = issued[j].token
        /\ last.result = Returned(issued[i].name)

HostA == Str(<<"a", ".", "e", "x", "a", "m", "p", "l", "e", ".", "c", "o", "m">>)
HostB == Str(<<"b", ".", "e", "x", "a", "m", "p", "l", "e", ".", "c", "o", "m">>)

\* C9 as stated: the offset lists of "a.example.com" and "b.example.com"
\* have identical final two offsets.
C9_SharedFinalTwo ==
    \A i, j \in 1..Len(issued) :
        (issued[i].name = HostA /\ issued[j].name = HostB) =>
            /\ Len(issued[i].offList) = 3
            /\ Len(issued[j].offList) = 3
            /\ SubSeq(issued[i].offList, 2, 3) = SubSeq(issued[j].offList, 2, 3)

\* C9 amended: the offset lists of "a.example.com" and "b.example.com" have
\* identical first two offsets, the ones of "com" and "example" (the list runs
\* from the rightmost label to the leftmost), and different last offsets.
C9_SharedFirstTwo ==
    \A i, j \in 1..Len(issued) :
        (issued[i].name = HostA /\ issued[j].name = HostB) =>
            /\ Len(issued[i].offList) = 3
            /\ Len(issued[j].offList) = 3
            /\ SubSeq(issued[i].offList, 1, 2) = SubSeq(issued[j].offList, 1, 2)
            /\ EntryChars(buf_, issued[i].offList[1]) = Str(<<"c", "o", "m">>)
            /\ EqualNoCase(EntryChars(buf_, issued[i].offList[2]),
                           Str(<<"e", "x", "a", "m", "p", "l", "e">>))
            /\ issued[i].offList[3] # issued[j].offList[3]

\* "a.example.com" and then "b.example.com" were compressed.
C9_Witness ==
    \E i \in 1..Len(issued) : \E j \in (i + 1)..Len(issued) :
        /\ issued[i].name = HostA
        /\ issued[j].name = HostB
        /\ last.op = "compress"
        /\ last.arg = HostB

\* C10: no trie node has two children whose labels are equal up to case, and
\* two compressed hostnames whose rightmost k labels agree up to case have
\* the same first k offsets.
C10_OneCopyPerPosition ==
    /\ \A n \in 1..Len(root_) :
         \A x, y \in 1..Len(root_[n].childNodes) :
            x # y =>
              ~EqualNoCase(EntryChars(buf_, root_[root_[n].childNodes[x]].offset),
                           EntryChars(buf_, root_[root_[n].childNodes[y]].offset))
    /\ \A i, j \in 1..Len(issued) :
         \A k \in 1..Len(issued[i].labels) :
            AgreeOn(issued[i].labels, issued[j].labels, k) =>
                SubSeq(issued[i].offList, 1, k) = SubSeq(issued[j].offList, 1, k)

\* Two different hostnames that share their two rightmost labels up to case,
\* but not in spelling, were compressed under a node that has two children.
C10_Witness ==
    /\ \E n \in 1..Len(root_) : Len(root_[n].childNodes) >= 2
    /\ \E i, j \in 1..Len(issued) :
         /\ Len(issued[i].labels) = 3
         /\ AgreeOn(issued[i].labels, issued[j].labels, 2)
         /\ issued[i].labels[2] # issued[j].labels[2]
         /\ SubSeq(issued[i].offList, 1, 2) = issued[j].offList

---------------------------------------------------------------------------
\* The trie and the store as the properties below see them.

\* The nodes of the trie root reachable from node n, n included (1 is root_).
RECURSIVE Desc(_, _)
Desc(root, n) ==
    {n} \cup UNION {Desc(root, root[n].childNodes[i]) :
                        i \in 1..Len(root[n].childNodes)}

TrieNodes == Desc(root_, 1)

Range(v) == {v[i] : i \in 1..Len(v)}

\* The label of node n as the store holds it.
Label(n) == EntryChars(buf_, root_[n].offset)

Upper(s) == [i \in 1..Len(s) |-> IF s[i] >= 97 /\ s[i] <= 122 THEN s[i] - 32
                                 ELSE s[i]]
Lower(s) == [i \in 1..Len(s) |-> tolower(s[i])]

---------------------------------------------------------------------------
\* C11: in every reachable state the childNodes of every node are strictly
\* increasing under compare_bare_string, and find_node finds every child
\* under its stored label and under that label in upper and in lower case.
C11_SiblingsSorted ==
    \A n \in TrieNodes :
        LET ch == root_[n].childNodes
        IN  /\ \A i \in 1..Len(ch) : \A j \in (i + 1)..Len(ch) :
                   compare_bare_string(Label(ch[i]), Len(Label(ch[i])),
                                       Label(ch[j]), Len(Label(ch[j]))) < 0
            /\ \A i \in 1..Len(ch) :
                   \A s \in {Label(ch[i]), Upper(Label(ch[i])), Lower(Label(ch[i]))} :
                       find_node(State, ch, s) = i - 1

\* A node has three children, and one of them was inserted before an older
\* one, so the vector order is not the order of arrival.
C11_Witness ==
    \E n \in TrieNodes :
        LET ch == root_[n].childNodes
        IN  /\ Len(ch) >= 3
            /\ \E i \in 1..(Len(ch) - 1) : ch[i] > ch[i + 1]

---------------------------------------------------------------------------
\* C12: no step changes a byte of the store that was written before it,
\* lowers bufCosumed_ or buf_.size(), removes a node from the trie, moves a
\* node to another parent or changes a node's offset.
C12_StoreImmutable ==
    [][/\ Len(buf_'.data) >= Len(buf_.data)
       /\ SubSeq(buf_'.data, 1, Len(buf_.data)) = buf_.data
       /\ bufCosumed_' >= bufCosumed_
       /\ buf_'.size >= buf_.size
       /\ TrieNodes \subseteq Desc(root_', 1)
       /\ \A n \in TrieNodes :
              /\ root_'[n].offset = root_[n].offset
              /\ Range(root_[n].childNodes) \subseteq Range(root_'[n].childNodes)
      ]_vars

\* The second hostname made the store grow and added a node that the first
\* had not written, and the first token still decompresses as it did.
C12_Witness ==
    /\ Len(issued) >= 2
    /\ issued[2].size > issued[1].size
    /\ \E k \in 1..Len(issued[2].offList) :
           issued[2].offList[k] \notin Range(issued[1].offList)
    /\ last.op = "decompress"
    /\ last.arg = issued[1].token
    /\ last.result = issued[1].back

---------------------------------------------------------------------------
\* The labels, rightmost first, all have a node on the path below node n: at
\* every level a child carries the label up to case.
RECURSIVE PathPresent(_, _)
PathPresent(labels, n) ==
    \/ labels = <<>>
    \/ \E c \in Range(root_[n].childNodes) :
           /\ EqualNoCase(Label(c), Head(labels))
           /\ PathPresent(Tail(labels), c)

\* C13: a compress_hostname whose labels are all present on their path, so
\* that every write_node call is a hit, changes neither the store nor the
\* trie, and no decompress_hostname does.
C13_HitMutatesNothing ==
    [][\/ UNCHANGED <<root_, buf_, bufCosumed_>>
       \/ /\ last'.op = "compress"
          /\ ~PathPresent(RLabels(last'.arg, Len(last'.arg)), 1)
      ]_vars

\* The last call compressed a hostname for the first time, after another
\* one, and every offset it returned had been handed out before: each of its
\* write_node calls was a hit.
C13_Witness ==
    /\ last.op = "compress"
    /\ Len(issued) >= 2
    /\ last.arg = issued[Len(issued)].name
    /\ last.offList # <<>>
    /\ last.writes = <<>>
    /\ Range(last.offList) \subseteq
           UNION {Range(issued[k].offList) : k \in 1..(Len(issued) - 1)}

---------------------------------------------------------------------------
\* C14: in every reachable state the offset of every node but root_ is at
\* least 2 and less than bufCosumed_, and every offset compress_hostname
\* put in an offset list is at least 2.
C14_OffsetFloor ==
    /\ \A n \in TrieNodes \ {1} :
           root_[n].offset >= 2 /\ root_[n].offset < bufCosumed_
    /\ \A k \in 1..Len(last.offList) : last.offList[k] >= 2
    /\ \A i \in 1..Len(issued) : \A k \in 1..Len(issued[i].offList) :
           issued[i].offList[k] >= 2

\* The last call wrote the first entry of the store, at offset 2, and more
\* entries behind it.
C14_Witness ==
    /\ last.op = "compress"
    /\ Len(last.writes) >= 2
    /\ last.offList[1] = 2
    /\ \E n \in TrieNodes : root_[n].offset = 2

---------------------------------------------------------------------------
\* C15: write_string resizes buf_ only when bufCosumed_ + 1 + len is greater
\* than buf_.size(), so an entry that fits exactly causes no growth, and
\* each growth adds exactly one block of 2048 bytes.
C15_GrowthOnlyOnOverflow ==
    \A k \in 1..Len(last.writes) :
        LET w == last.writes[k]
        IN  /\ w.after # w.before => w.off + 1 + w.len > w.before
            /\ w.after \in {w.before, w.before + Pow2(STEP_SHIFT)}

---------------------------------------------------------------------------
\* C16: whenever a write_node call of compress_hostname emplaces into a
\* childNodes vector, the node refNode points to during the call, which is
\* the node the previous call returned and which is dereferenced again after
\* the emplace, is not an element of that vector.
C16_NoDanglingRef ==
    \A k \in 1..Len(last.ptrs) :
        last.ptrs[k].vec # 0 => last.ptrs[k].refIn # last.ptrs[k].vec

\* A call emplaced in front of elements of a vector, moving them, while
\* refNode pointed to an element of another vector.
C16_Witness ==
    \E k \in 1..Len(last.ptrs) :
        /\ last.ptrs[k].vec # 0
        /\ last.ptrs[k].shift > 0
        /\ last.ptrs[k].refIn # 0

---------------------------------------------------------------------------
\* Every label compress_hostname was given so far has at most 64 bytes.
ShortLabelsOnly ==
    /\ \A i \in 1..Len(issued) : \A k \in 1..Len(issued[i].labels) :
           Len(issued[i].labels[k]) <= MAX_HOST_NAME_NODE_LEN
    /\ last.op = "compress"
       => \A ls \in {RLabels(last.arg, Len(last.arg))} :
              \A k \in 1..Len(ls) : Len(ls[k]) <= MAX_HOST_NAME_NODE_LEN

\* No write ran past the end of buf_: each entry written ends inside the
\* vector as it is after at most one growth step of 2048 bytes.
WritesInBounds ==
    /\ last.result.kind # "undefined"
    /\ \A k \in 1..Len(last.writes) :
           LET w == last.writes[k]
           IN  /\ w.off + 1 + w.len <= w.after
               /\ w.after \in {w.before, w.before + Pow2(STEP_SHIFT)}

\* C17 as stated: as long as every label has at most 64 bytes, every write
\* of write_string lies inside buf_ after at most one growth step, and
\* bufCosumed_ <= buf_.size() holds in every reachable state.
C17_InBoundsAlways ==
    ShortLabelsOnly => WritesInBounds /\ bufCosumed_ <= buf_.size

\* C17 amended: as long as every label has at most 64 bytes, every write of
\* write_string lies inside buf_ after at most one growth step, and
\* bufCosumed_ <= buf_.size() holds in every state in which an entry has been
\* written; before the first write buf_ is empty and bufCosumed_ is 2.
C17_InBoundsOnceWritten ==
    ShortLabelsOnly =>
        /\ WritesInBounds
        /\ IF Len(root_) > 1 THEN bufCosumed_ <= buf_.size
           ELSE bufCosumed_ = 2 /\ buf_.size = 0

\* The last call wrote an entry that did not fit in buf_ as it was and lies
\* inside it after one growth step, with entries written before it.
C17_Witness ==
    /\ ShortLabelsOnly
    /\ \E k \in 2..Len(last.writes) :
           LET w == last.writes[k]
           IN  /\ w.before > 0
               /\ w.off + 1 + w.len > w.before
               /\ w.after = w.before + Pow2(STEP_SHIFT)
               /\ w.off + 1 + w.len <= w.after

---------------------------------------------------------------------------
\* C18: two hostnames compressed on the same instance have equal tokens if
\* and only if they have the same number of labels and agree label by label
\* up to case; the last offset of every token is the offset of exactly one
\* trie node.
C18_TokenInjective ==
    /\ \A i, j \in 1..Len(issued) :
           issued[i].token = issued[j].token
           <=> /\ Len(issued[i].labels) = Len(issued[j].labels)
               /\ AgreeOn(issued[i].labels, issued[j].labels, Len(issued[i].labels))
    /\ \A T \in {TrieNodes} : \A i \in 1..Len(issued) :
           \E n \in T :
               /\ root_[n].offset = issued[i].offList[Len(issued[i].offList)]
               /\ \A m \in T : root_[m].offset = root_[n].offset => m = n

\* Two hostnames in different spellings got the same token, and a third one
\* with as many labels got another.
C18_Witness ==
    \E i, j, k \in 1..Len(issued) :
        /\ issued[i].name # issued[j].name
        /\ issued[i].token = issued[j].token
        /\ Len(issued[k].labels) = Len(issued[i].labels)
        /\ issued[k].token # issued[i].token

---------------------------------------------------------------------------
\* The bytes the entry of node n takes in the store: its length byte and chars.
EntrySize(n) == BufAt(buf_, root_[n].offset) + 1

RECURSIVE SumEntrySizes(_)
SumEntrySizes(S) ==
    IF S = {} THEN 0
    ELSE LET n == CHOOSE x \in S : TRUE
         IN  EntrySize(n) + SumEntrySizes(S \ {n})

\* C19: in every reachable state distinct nodes have distinct offsets, the
\* entries of the nodes other than root_ lie one behind the other from
\* offset 2 to bufCosumed_ without gap or overlap, and bufCosumed_ is 2 plus
\* the sum of (label length + 1) over those nodes.
C19_OneEntryPerNode ==
    \A nodes \in {TrieNodes \ {1}} :
        /\ \A m, n \in nodes : m # n => root_[m].offset # root_[n].offset
        /\ \A n \in nodes :
               \/ root_[n].offset = 2
               \/ \E m \in nodes : root_[m].offset + EntrySize(m) = root_[n].offset
        /\ \A n \in nodes :
               \/ root_[n].offset + EntrySize(n) = bufCosumed_
               \/ \E m \in nodes : root_[m].offset = root_[n].offset + EntrySize(n)
        /\ bufCosumed_ = 2 + SumEntrySizes(nodes)
        /\ Len(buf_.data) = IF nodes = {} THEN 0 ELSE bufCosumed_

\* Several hostnames sharing labels have been compressed, one of them again:
\* the trie has at least four nodes besides root_ and the last call wrote
\* nothing.
C19_Witness ==
    /\ Cardinality(TrieNodes) >= 5
    /\ Len(issued) >= 2
    /\ last.op = "compress"
    /\ last.writes = <<>>
    /\ last.arg = issued[1].name

====
